---- MODULE Spec2Model ----
(***************************************************************************)
(* Model of mkm::MultiKeyMapImpl<V, Keys...> (src/inc/MultiKeyMap.h).      *)
(*                                                                         *)
(* The heap of Node objects is the sequence `nodes`; a NodePtr is an index *)
(* into it and Null is the empty shared_ptr.  A std::unordered_map<T,      *)
(* NodePtr> is a sequence of <<key, child>> pairs in the map's iteration   *)
(* order.  m_size is a size_t: it is held as the representative of its     *)
(* residue class modulo 2^64 that lies nearest to zero, so a size that has *)
(* wrapped below zero shows as a negative number and is never equal to a   *)
(* count of elements.  Children slots and key components are numbered      *)
(* from 1 (the source numbers them from 0).                                *)
(***************************************************************************)
EXTENDS Integers, Sequences, FiniteSets, TLC

\* Bounds of the model.
MaxNodes == 6
MaxComp == 2
MaxVal == 1
MaxWrap == 1
MaxSize == 3
MaxInit == 2
MaxIncrements == 3
MaxNodesSameType == 5

\* The template parameter packs Keys... the model instantiates.
KeyConfigs == { <<"int">>, <<"int", "char">> }

\* A pack in which two components have the same type; SpecSameType
\* instantiates it.
SameTypeKeys == <<"int", "int">>

\* The map objects of the program.
MapOrder == <<"a", "b">>
MapNames == { MapOrder[i] : i \in 1..Len(MapOrder) }

\* What a build can do on the undefined behaviour of a null dereference.
UBOutcomes == {"crash", "return"}

VARIABLES Keys, nodes, maps, crashed, last, copied

vars == <<Keys, nodes, maps, crashed, last, copied>>

Null == 0
NoData == <<>>
DefaultValue == 0

N == Len(Keys)
Slots == 1..N
Comp == 1..MaxComp
Values == 0..MaxVal

RECURSIVE SeqsOfLen(_)
SeqsOfLen(n) ==
    IF n = 0 THEN { <<>> }
    ELSE { Append(s, c) : s \in SeqsOfLen(n - 1), c \in Comp }

FullKeys == SeqsOfLen(N)
Prefixes == UNION { SeqsOfLen(k) : k \in 1..N }

IsPrefix(p, k) == Len(p) <= Len(k) /\ SubSeq(k, 1, Len(p)) = p

----------------------------------------------------------------------------
\* struct Node, freshly constructed (Node{}).
NewNode == [children |-> [s \in Slots |-> <<>>], data |-> NoData, parent |-> Null]

\* std::unordered_map primitives on the pair-sequence representation.
MapCount(cm, k) == Cardinality({ i \in 1..Len(cm) : cm[i][1] = k })

MapAt(cm, k) == cm[CHOOSE i \in 1..Len(cm) : cm[i][1] = k][2]

MapErase(cm, k) == SelectSeq(cm, LAMBDA e : e[1] # k)

\* operator[] creating an entry: the position the new entry takes in the
\* iteration order is unspecified; pos picks it.
MapInsert(cm, k, child, pos) ==
    LET at == IF pos > Len(cm) + 1 THEN Len(cm) + 1 ELSE pos
    IN  SubSeq(cm, 1, at - 1) \o << <<k, child>> >> \o SubSeq(cm, at, Len(cm))

\* detail::getIndexOfType<NodeChildren<T>, ChildrenType<Keys>...>: the first
\* slot whose type is T.
IndexOfType(T) == CHOOSE i \in Slots : Keys[i] = T /\ \A j \in 1..(i - 1) : Keys[j] # T

getChildrenTypeFromTuple(T) == IndexOfType(T)

----------------------------------------------------------------------------
\* getNodeForKeyPrefixImpl(const Wrapper<KeyPrefix>&... key, bool create):
\* the fold over the key components, from component i on.  h is the heap,
\* node the current node, parent the local of that name.  The result is the
\* heap after the walk and the node reached (Null on a failed lookup).
RECURSIVE WalkKeyCreates(_, _, _, _, _, _, _)
\* A faulty walk, for C25: it creates the nodes that are missing whatever
\* createIfKeyDoesNotExist says.
WalkKeyCreates(h, node, parent, key, i, create, pos) ==
    IF i > Len(key) \/ node = Null THEN [h |-> h, node |-> node]
    ELSE LET slot == getChildrenTypeFromTuple(Keys[i])
             children == h[node].children[slot]
         IN  IF MapCount(children, key[i]) = 0
             THEN LET new == Len(h) + 1
                      h1 == Append(h, [NewNode EXCEPT !.parent = parent])
                      h2 == [h1 EXCEPT ![node].children[slot] =
                                 MapInsert(children, key[i], new, pos)]
                  IN  WalkKeyCreates(h2, new, new, key, i + 1, create, pos)
             ELSE LET c == MapAt(children, key[i])
                  IN  WalkKeyCreates(h, c, c, key, i + 1, create, pos)

RECURSIVE WalkKey(_, _, _, _, _, _, _)
WalkKey(h, node, parent, key, i, create, pos) ==
    IF i > Len(key) \/ node = Null THEN [h |-> h, node |-> node]
    ELSE LET slot == getChildrenTypeFromTuple(Keys[i])
             children == h[node].children[slot]
         IN  IF MapCount(children, key[i]) = 0
             THEN IF create
                  THEN LET new == Len(h) + 1
                           h1 == Append(h, [NewNode EXCEPT !.parent = parent])
                           h2 == [h1 EXCEPT ![node].children[slot] =
                                      MapInsert(children, key[i], new, pos)]
                       IN  WalkKey(h2, new, new, key, i + 1, create, pos)
                  ELSE WalkKey(h, Null, parent, key, i + 1, create, pos)
             ELSE LET c == MapAt(children, key[i])
                  IN  WalkKey(h, c, c, key, i + 1, create, pos)

\* The whole of getNodeForKeyPrefixImpl: a null m_root is replaced by a new
\* root when creating and ends the lookup otherwise.
getNodeForKeyPrefixImpl(h, root, key, create, pos) ==
    IF root = Null
    THEN IF create
         THEN LET r == Len(h) + 1
                  w == WalkKey(Append(h, NewNode), r, Null, key, 1, create, pos)
              IN  [h |-> w.h, node |-> w.node, root |-> r]
         ELSE [h |-> h, node |-> Null, root |-> root]
    ELSE LET w == WalkKey(h, root, Null, key, 1, create, pos)
         IN  [h |-> w.h, node |-> w.node, root |-> root]

RECURSIVE FirstMissing(_, _, _, _)
\* The size of the map that receives the first node a creating walk makes,
\* 0 when the walk makes none or makes the root.
FirstMissing(h, node, key, i) ==
    IF i > Len(key) \/ node = Null THEN 0
    ELSE LET children == h[node].children[getChildrenTypeFromTuple(Keys[i])]
         IN  IF MapCount(children, key[i]) = 0 THEN Len(children)
             ELSE FirstMissing(h, MapAt(children, key[i]), key, i + 1)

\* The places the entry such a walk adds can take in the iteration order of
\* its map (every later node of the walk enters an empty map).
Places(h, root, key) == 1..(FirstMissing(h, root, key, 1) + 1)

\* A faulty lookup, for C4: it stops one component short of the key, so it
\* returns the parent of the node the key names.
getNodeForKeyPrefixShort(h, root, key) ==
    getNodeForKeyPrefixImpl(h, root, SubSeq(key, 1, Len(key) - 1), FALSE, 1).node

\* getNodeForKeyPrefix(key): the lookup that creates nothing.
getNodeForKeyPrefix(h, root, key) == getNodeForKeyPrefixImpl(h, root, key, FALSE, 1).node

RECURSIVE WalkKeyConst(_, _, _, _)
\* The fold over the key components of the const getNodeForKeyPrefixImpl:
\* a component that is not among the children ends it with nullptr.
WalkKeyConst(h, node, key, i) ==
    IF i > Len(key) \/ node = Null THEN node
    ELSE LET children == h[node].children[getChildrenTypeFromTuple(Keys[i])]
         IN  IF MapCount(children, key[i]) = 0 THEN Null
             ELSE WalkKeyConst(h, MapAt(children, key[i]), key, i + 1)

\* A faulty const lookup, for C24: it walks the first component only.
getNodeForKeyPrefixConstFirst(h, root, key) ==
    IF root = Null THEN Null
    ELSE WalkKeyConst(h, root, SubSeq(key, 1, IF Len(key) > 1 THEN 1 ELSE Len(key)), 1)

\* getNodeForKeyPrefix(key) const
getNodeForKeyPrefixConst(h, root, key) ==
    IF root = Null THEN Null ELSE WalkKeyConst(h, root, key, 1)

\* std::make_tuple(key...): a tuple of copies of the arguments.
make_tuple(key) == [i \in 1..Len(key) |-> key[i]]

----------------------------------------------------------------------------
\* IteratorImpl: m_nodes is a sequence whose last element is the stack top.
Top(stack) == stack[Len(stack)]
Pop(stack) == SubSeq(stack, 1, Len(stack) - 1)

RECURSIVE ChildrenOf(_, _)
\* The children of a node in the order advance() pushes them: slot by slot,
\* each slot in its map's iteration order.
ChildrenOf(n, s) ==
    IF s > Len(n.children) THEN <<>>
    ELSE [i \in 1..Len(n.children[s]) |-> n.children[s][i][2]] \o ChildrenOf(n, s + 1)

\* A faulty advance(), for C3: it pushes one child of the popped node and
\* drops that child's siblings.
advanceOneChild(h, stack) ==
    LET cs == ChildrenOf(h[Top(stack)], 1)
    IN  Pop(stack) \o (IF cs = <<>> THEN <<>> ELSE <<cs[Len(cs)]>>)

\* A faulty advance(), for C30: it pushes the children without popping
\* the node.
advanceKeepsTop(h, stack) == stack \o ChildrenOf(h[Top(stack)], 1)

\* A faulty advance(), for C31: it puts the children under the node that
\* was below the popped one.
advanceUnderNext(h, stack) ==
    LET rest == Pop(stack)
        cs == ChildrenOf(h[Top(stack)], 1)
    IN  IF rest = <<>> THEN cs ELSE Pop(rest) \o cs \o <<Top(rest)>>

advance(h, stack) == Pop(stack) \o ChildrenOf(h[Top(stack)], 1)

\* A faulty skip loop, for C29: it leaves the stack as it finds it.
SkipNothing(h, stack) == stack

RECURSIVE SkipToValue(_, _)
\* while(!m_nodes.empty() && !m_nodes.top()->data.has_value()) advance();
SkipToValue(h, stack) ==
    IF stack = <<>> \/ h[Top(stack)].data # NoData THEN stack
    ELSE SkipToValue(h, advance(h, stack))

\* IteratorImpl(IterNodePtr node)
IteratorImpl(h, node) == IF node = Null THEN <<>> ELSE SkipToValue(h, <<node>>)

\* A faulty operator++, for C22: at the end it starts over at the first node.
IncrementWraps(h, stack) ==
    IF stack = <<>> THEN SkipToValue(h, <<1>>) ELSE SkipToValue(h, advance(h, stack))

\* IteratorImpl::operator++
Increment(h, stack) == IF stack = <<>> THEN stack ELSE SkipToValue(h, advance(h, stack))

isEnd(stack) == stack = <<>>

\* A faulty operator==, for C23: it compares the whole stacks.
IteratorEqualsStacks(it1, it2) == it1 = it2

\* IteratorImpl::operator==
IteratorEquals(it1, it2) ==
    IF isEnd(it1) /\ isEnd(it2) THEN TRUE
    ELSE IF isEnd(it1) \/ isEnd(it2) THEN FALSE
    ELSE Top(it1) = Top(it2)

\* begin() and end() of the map whose root is root.
begin(h, root) == IteratorImpl(h, root)
end == <<>>

RECURSIVE Range(_, _)
\* The nodes a loop for(; it != end(); ++it) visits, in order.
Range(h, stack) ==
    IF isEnd(stack) THEN <<>> ELSE <<Top(stack)>> \o Range(h, Increment(h, stack))

\* begin() .. end() of the map whose root is root, as (key, value) pairs.
Elements(h, root) ==
    LET r == Range(h, IteratorImpl(h, root)) IN [i \in 1..Len(r) |-> h[r[i]].data]

\* find(key) .. end(), as (key, value) pairs.
find(h, root, key) ==
    LET r == Range(h, IteratorImpl(h, getNodeForKeyPrefix(h, root, key)))
    IN  [i \in 1..Len(r) |-> h[r[i]].data]

count(h, root, key) == Len(find(h, root, key))

\* A faulty contains(), for C17: it tells whether the key names a node.
containsNode(h, root, key) == getNodeForKeyPrefix(h, root, key) # Null

contains(h, root, key) == ~isEnd(IteratorImpl(h, getNodeForKeyPrefix(h, root, key)))

----------------------------------------------------------------------------
\* A map object: its members m_root and m_size; live is false before its
\* construction and after its destruction.
DeadMap == [live |-> FALSE, m_root |-> Null, m_size |-> 0]

size(m) == m.m_size

empty(m) == m.m_size = 0

\* A faulty at(), for C14: it looks the key up the way operator[] does,
\* creating the nodes that are missing.
atCreates(h, m, key) ==
    LET w == getNodeForKeyPrefixImpl(h, m.m_root, key, TRUE, 1)
        it == IteratorImpl(w.h, w.node)
        m1 == [m EXCEPT !.m_root = w.root]
    IN  IF isEnd(it)
        THEN [h |-> w.h, m |-> m1, found |-> FALSE, value |-> DefaultValue]
        ELSE [h |-> w.h, m |-> m1, found |-> TRUE, value |-> w.h[Top(it)].data[2]]

\* mapped_type& at(const key_type& key).  found tells that the call returned
\* (FALSE: it threw std::out_of_range), value is the value the returned
\* reference denotes, h and m are the nodes and the members after the call.
at(h, m, key) ==
    LET w == getNodeForKeyPrefixImpl(h, m.m_root, key, FALSE, 1)
        it == IteratorImpl(w.h, w.node)
        m1 == [m EXCEPT !.m_root = w.root]
    IN  IF isEnd(it)
        THEN [h |-> w.h, m |-> m1, found |-> FALSE, value |-> DefaultValue]
        ELSE [h |-> w.h, m |-> m1, found |-> TRUE, value |-> w.h[Top(it)].data[2]]

\* bool operator==(const MultiKeyMapImpl& rhs) const
operatorEquals(h, this, rhs) ==
    IF size(this) # size(rhs) THEN FALSE
    ELSE LET r == Range(h, IteratorImpl(h, rhs.m_root))
             same(k, v) ==
                 LET it == IteratorImpl(h, getNodeForKeyPrefix(h, this.m_root, k))
                 IN  ~isEnd(it) /\ h[Top(it)].data[2] = v
         IN  \A i \in 1..Len(r) : same(h[r[i]].data[1], h[r[i]].data[2])

\* A faulty insert, for C2: it assigns the value also to a node that
\* already holds one.
insertOverwrites(h, m, key, value, pos) ==
    LET w == getNodeForKeyPrefixImpl(h, m.m_root, key, TRUE, pos)
    IN  IF w.h[w.node].data = NoData
        THEN [h   |-> [w.h EXCEPT ![w.node].data = <<key, value>>],
              m   |-> [m EXCEPT !.m_root = w.root, !.m_size = @ + 1],
              ret |-> TRUE]
        ELSE [h   |-> [w.h EXCEPT ![w.node].data = <<key, value>>],
              m   |-> [m EXCEPT !.m_root = w.root],
              ret |-> FALSE]

\* A faulty insert, for C26: it stores the payload one node above the node
\* of the key.
insertAbove(h, m, key, value, pos) ==
    LET w == getNodeForKeyPrefixImpl(h, m.m_root, SubSeq(key, 1, Len(key) - 1), TRUE, pos)
    IN  IF w.h[w.node].data = NoData
        THEN [h   |-> [w.h EXCEPT ![w.node].data = <<key, value>>],
              m   |-> [m EXCEPT !.m_root = w.root, !.m_size = @ + 1],
              ret |-> TRUE]
        ELSE [h |-> w.h, m |-> [m EXCEPT !.m_root = w.root], ret |-> FALSE]

\* bool insert(const key_type& key, const V& value)
insert(h, m, key, value, pos) ==
    LET w == getNodeForKeyPrefixImpl(h, m.m_root, key, TRUE, pos)
    IN  IF w.h[w.node].data = NoData
        THEN [h   |-> [w.h EXCEPT ![w.node].data = <<key, value>>],
              m   |-> [m EXCEPT !.m_root = w.root, !.m_size = @ + 1],
              ret |-> TRUE]
        ELSE [h |-> w.h, m |-> [m EXCEPT !.m_root = w.root], ret |-> FALSE]

\* A faulty operator[], for C15: it puts the value of an absent key into a
\* node that no map leads to.
bracketDetached(h, m, key, pos) ==
    LET w == getNodeForKeyPrefixImpl(h, m.m_root, key, TRUE, pos)
    IN  IF w.h[w.node].data = NoData
        THEN [h    |-> Append(w.h, [NewNode EXCEPT !.data = <<key, DefaultValue>>]),
              m    |-> [m EXCEPT !.m_root = w.root, !.m_size = @ + 1],
              node |-> Len(w.h) + 1]
        ELSE [h |-> w.h, m |-> [m EXCEPT !.m_root = w.root], node |-> w.node]

\* A faulty operator[], for C16: it counts the key also when the node
\* already holds a value.
bracketAlwaysCounts(h, m, key, pos) ==
    LET w == getNodeForKeyPrefixImpl(h, m.m_root, key, TRUE, pos)
    IN  IF w.h[w.node].data = NoData
        THEN [h    |-> [w.h EXCEPT ![w.node].data = <<key, DefaultValue>>],
              m    |-> [m EXCEPT !.m_root = w.root, !.m_size = @ + 1],
              node |-> w.node]
        ELSE [h    |-> w.h,
              m    |-> [m EXCEPT !.m_root = w.root, !.m_size = @ + 1],
              node |-> w.node]

\* mapped_type& operator[](const key_type& key); node is the node whose
\* value the returned reference denotes.
bracket(h, m, key, pos) ==
    LET w == getNodeForKeyPrefixImpl(h, m.m_root, key, TRUE, pos)
    IN  IF w.h[w.node].data = NoData
        THEN [h    |-> [w.h EXCEPT ![w.node].data = <<key, DefaultValue>>],
              m    |-> [m EXCEPT !.m_root = w.root, !.m_size = @ + 1],
              node |-> w.node]
        ELSE [h |-> w.h, m |-> [m EXCEPT !.m_root = w.root], node |-> w.node]

\* The slots erase() clears: getChildrenTypeFromTuple<Keys>(...) for each
\* type of the pack.
ClearedSlots == { getChildrenTypeFromTuple(Keys[t]) : t \in Slots }

\* A faulty erase, for C7: it takes one off m_size however many elements
\* the erased subtree holds.
eraseDecrementsOnce(h, m, key) ==
    LET node == getNodeForKeyPrefix(h, m.m_root, key)
        c == Len(Range(h, IteratorImpl(h, node)))
        m1 == [m EXCEPT !.m_size = @ - (IF c > 0 THEN 1 ELSE 0)]
    IN  IF node = Null THEN [h |-> h, m |-> m1, ub |-> TRUE, c |-> c]
        ELSE LET h1 == [h EXCEPT ![node].children =
                           [s \in Slots |-> IF s \in ClearedSlots THEN <<>> ELSE @[s]]]
                 parent == h[node].parent
                 last_idx == Len(key)
                 h2 == IF parent # Null
                       THEN [h1 EXCEPT ![parent].children[last_idx] =
                                MapErase(@, key[last_idx])]
                       ELSE h1
             IN  [h |-> h2, m |-> m1, ub |-> FALSE, c |-> c]

\* A faulty erase, for C8: it empties the parent's map instead of removing
\* the one entry of the erased key.
eraseClearsParentMap(h, m, key) ==
    LET node == getNodeForKeyPrefix(h, m.m_root, key)
        c == Len(Range(h, IteratorImpl(h, node)))
        m1 == [m EXCEPT !.m_size = @ - c]
    IN  IF node = Null THEN [h |-> h, m |-> m1, ub |-> TRUE, c |-> c]
        ELSE LET h1 == [h EXCEPT ![node].children =
                           [s \in Slots |-> IF s \in ClearedSlots THEN <<>> ELSE @[s]]]
                 parent == h[node].parent
                 last_idx == Len(key)
                 h2 == IF parent # Null
                       THEN [h1 EXCEPT ![parent].children[last_idx] = <<>>]
                       ELSE h1
             IN  [h |-> h2, m |-> m1, ub |-> FALSE, c |-> c]

\* void erase(std::tuple<KeyPrefix...> key).  ub tells that the call
\* dereferenced a null node (node->children with node == nullptr); c is the
\* number of times the loop ran.
erase(h, m, key) ==
    LET node == getNodeForKeyPrefix(h, m.m_root, key)
        c == Len(Range(h, IteratorImpl(h, node)))
        m1 == [m EXCEPT !.m_size = @ - c]
    IN  IF node = Null THEN [h |-> h, m |-> m1, ub |-> TRUE, c |-> c]
        ELSE LET h1 == [h EXCEPT ![node].children =
                           [s \in Slots |-> IF s \in ClearedSlots THEN <<>> ELSE @[s]]]
                 parent == h[node].parent
                 last_idx == Len(key)
                 h2 == IF parent # Null
                       THEN [h1 EXCEPT ![parent].children[last_idx] =
                                MapErase(@, key[last_idx])]
                       ELSE h1
             IN  [h |-> h2, m |-> m1, ub |-> FALSE, c |-> c]

\* A faulty clear(), for C18: it resets m_size and keeps the root.
clearSizeOnly(h, m) == [h |-> h, m |-> [m EXCEPT !.m_size = 0]]

\* void clear()
clear(h, m) == [h |-> Append(h, NewNode), m |-> [m EXCEPT !.m_size = 0, !.m_root = Len(h) + 1]]

\* A faulty swap, for C19: it exchanges m_size and leaves each m_root.
swapSizesOnly(this, rhs) ==
    [this |-> [this EXCEPT !.m_size = rhs.m_size],
     rhs  |-> [rhs EXCEPT !.m_size = this.m_size]]

\* A faulty swap, for C20: both maps end with the root of rhs.
swapOneRoot(this, rhs) ==
    [this |-> [this EXCEPT !.m_size = rhs.m_size, !.m_root = rhs.m_root],
     rhs  |-> [rhs EXCEPT !.m_size = this.m_size]]

\* void swap(MultiKeyMapImpl& rhs)
swap(this, rhs) ==
    [this |-> [this EXCEPT !.m_size = rhs.m_size, !.m_root = rhs.m_root],
     rhs  |-> [rhs EXCEPT !.m_size = this.m_size, !.m_root = this.m_root]]

RECURSIVE mergeLoop(_, _, _, _, _)
\* The loop of merge(): it is the iterator over source, which stays live
\* while source.erase(k) changes the nodes under it.
mergeLoop(h, this, source, it, pos) ==
    IF isEnd(it) THEN [h |-> h, this |-> this, source |-> source, ub |-> FALSE]
    ELSE LET kv == h[Top(it)].data
             \* after source.erase(k), whose result is er
             erased(ins, er) ==
                 IF er.ub
                 THEN [h |-> er.h, this |-> ins.m, source |-> er.m, ub |-> TRUE]
                 ELSE mergeLoop(er.h, ins.m, er.m, Increment(er.h, it), pos)
             \* after insert(k, v), whose result is ins
             inserted(ins) ==
                 IF ins.ret
                 THEN erased(ins, erase(ins.h, source, kv[1]))
                 ELSE mergeLoop(ins.h, ins.m, source, Increment(ins.h, it), pos)
         IN  inserted(insert(h, this, kv[1], kv[2], pos))

\* void merge(MultiKeyMapImpl& source), for source another object than *this.
merge(h, this, source, pos) ==
    mergeLoop(h, this, source, IteratorImpl(h, source.m_root), pos)

RECURSIVE copyLoop(_, _, _, _)
\* The loop of the copy constructor: it is the iterator over rhs.
copyLoop(h, this, it, pos) ==
    IF isEnd(it) THEN [h |-> h, m |-> this]
    ELSE LET kv == h[Top(it)].data
             ins == insert(h, this, kv[1], kv[2], pos)
         IN  copyLoop(ins.h, ins.m, Increment(ins.h, it), pos)

\* A faulty copy constructor, for C11: it takes over the root of rhs
\* instead of building nodes of its own.
CopyCtorShallow(h, rhs, self, pos) ==
    [h |-> h, m |-> [live |-> TRUE, m_root |-> rhs.m_root, m_size |-> rhs.m_size]]

\* MultiKeyMapImpl(const MultiKeyMapImpl& rhs).  self tells that rhs is the
\* object under construction (operator= on itself): rhs.cbegin() then reads
\* the m_root the constructor has just set.
CopyCtor(h, rhs, self, pos) ==
    LET root == Len(h) + 1
        h1 == Append(h, NewNode)
        this == [live |-> TRUE, m_root |-> root, m_size |-> 0]
        from == IF self THEN root ELSE rhs.m_root
    IN  copyLoop(h1, this, IteratorImpl(h1, from), pos)

\* MultiKeyMapImpl(MultiKeyMapImpl&& rhs): the shared_ptr is moved out of
\* rhs, the size_t is copied.
MoveCtor(rhs) ==
    [this |-> [live |-> TRUE, m_root |-> rhs.m_root, m_size |-> rhs.m_size],
     rhs  |-> [rhs EXCEPT !.m_root = Null]]

\* MultiKeyMapImpl()
DefaultCtor(h) ==
    [h |-> Append(h, NewNode), m |-> [live |-> TRUE, m_root |-> Len(h) + 1, m_size |-> 0]]

\* The sequences [first, last) a map is constructed from: up to MaxInit
\* (key, value) pairs.
InitLists ==
    UNION { [1..n -> { <<k, v>> : k \in FullKeys, v \in Values }] : n \in 0..MaxInit }

RECURSIVE rangeLoop(_, _, _, _, _)
\* The loop of the range constructor: first is at init[i].
rangeLoop(h, this, init, i, pos) ==
    IF i > Len(init) THEN [h |-> h, m |-> this]
    ELSE LET ins == insert(h, this, init[i][1], init[i][2], pos)
         IN  rangeLoop(ins.h, ins.m, init, i + 1, pos)

\* A faulty range constructor, for C21: it reads the range from its end.
RangeCtorBackwards(h, init, pos) ==
    rangeLoop(Append(h, NewNode), [live |-> TRUE, m_root |-> Len(h) + 1, m_size |-> 0],
              [i \in 1..Len(init) |-> init[Len(init) + 1 - i]], 1, pos)

\* MultiKeyMapImpl(InputIt first, InputIt last)
RangeCtor(h, init, pos) ==
    rangeLoop(Append(h, NewNode), [live |-> TRUE, m_root |-> Len(h) + 1, m_size |-> 0],
              init, 1, pos)

\* MultiKeyMapImpl(std::initializer_list<value_type> init): it delegates to
\* the range constructor with init.begin() and init.end().
InitListCtor(h, init, pos) == RangeCtor(h, init, pos)

----------------------------------------------------------------------------
\* The heap is kept up to the renaming of addresses: after every call the
\* nodes some pointer of the program still leads to (from a live map's
\* m_root, through children and parent) are renumbered in the order a walk
\* from the roots meets them, and the others, which no call can reach any
\* more, are left out.
RECURSIVE Visit(_, _, _)
Visit(h, todo, seen) ==
    IF todo = <<>> THEN seen
    ELSE LET x == Head(todo)
         IN  IF x = Null \/ \E i \in 1..Len(seen) : seen[i] = x
             THEN Visit(h, Tail(todo), seen)
             ELSE Visit(h, ChildrenOf(h[x], 1) \o <<h[x].parent>> \o Tail(todo),
                        Append(seen, x))

Reached(h, ms) == Visit(h, [i \in 1..Len(MapOrder) |-> ms[MapOrder[i]].m_root], <<>>)

Renumber(h, ms) ==
    LET ord == Reached(h, ms)
        new(x) == IF x = Null THEN Null ELSE CHOOSE i \in 1..Len(ord) : ord[i] = x
        node(n) == [children |-> [s \in Slots |->
                                    [i \in 1..Len(n.children[s]) |->
                                        <<n.children[s][i][1], new(n.children[s][i][2])>>]],
                    data     |-> n.data,
                    parent   |-> new(n.parent)]
    IN  IF ord = [i \in 1..Len(h) |-> i] THEN [h |-> h, ms |-> ms]
        ELSE [h  |-> [i \in 1..Len(ord) |-> node(h[ord[i]])],
              ms |-> [m \in MapNames |-> [ms[m] EXCEPT !.m_root = new(@)]]]

\* The bounds of the model: the number of nodes in reach, and how far the
\* model follows an m_size that has run away from the element count.
InBounds(h, ms) ==
    /\ Len(h) <= (IF Keys = SameTypeKeys THEN MaxNodesSameType ELSE MaxNodes)
    /\ \A m \in MapNames : ms[m].m_size >= 0 - MaxWrap /\ ms[m].m_size <= MaxSize

\* The last call made: its name, the object it was made on, the other
\* object it names, its key and value arguments, the bool it returned and,
\* for erase, the number of elements its loop counted (for clear, the
\* number of elements the map held).
Call(op, m, o, key, val, ret, c) ==
    [op |-> op, m |-> m, o |-> o, key |-> key, val |-> val, ret |-> ret, c |-> c]

NoCall == Call("", "", "", <<>>, 0, FALSE, 0)

Live(m) == maps[m].live

\* copied tells that the call that has just returned, or the one before it,
\* was the copy construction of one map from the other.

\* The caller can make a call: the program has not crashed and the caller
\* is not looking at the result of the call before.
Ready == ~crashed /\ last = NoCall

Positions == 1..MaxComp

\* The state a call leaves: heap h and objects ms.
Leaves(h, ms) ==
    LET r == Renumber(h, ms)
    IN  /\ InBounds(r.h, r.ms)
        /\ nodes' = r.h
        /\ maps' = r.ms

Init ==
    /\ Keys \in KeyConfigs
    /\ nodes = <<NewNode>>
    /\ maps = [m \in MapNames |->
                  IF m = "a" THEN [live |-> TRUE, m_root |-> 1, m_size |-> 0] ELSE DeadMap]
    /\ crashed = FALSE
    /\ last = NoCall
    /\ copied = FALSE

\* The state after construction of a map whose pack is SameTypeKeys.
InitSameType ==
    /\ Keys = SameTypeKeys
    /\ nodes = <<NewNode>>
    /\ maps = [m \in MapNames |->
                  IF m = "a" THEN [live |-> TRUE, m_root |-> 1, m_size |-> 0] ELSE DeadMap]
    /\ crashed = FALSE
    /\ last = NoCall
    /\ copied = FALSE

OpInsert(m, key, value, pos) ==
    /\ Ready /\ Live(m)
    /\ LET r == insert(nodes, maps[m], key, value, pos)
       IN  /\ Leaves(r.h, [maps EXCEPT ![m] = r.m])
           /\ last' = Call("insert", m, "", key, value, r.ret, 0)
    /\ UNCHANGED <<Keys, crashed, copied>>

\* map[key];
OpBracket(m, key, pos) ==
    /\ Ready /\ Live(m)
    /\ LET r == bracket(nodes, maps[m], key, pos)
       IN  /\ Leaves(r.h, [maps EXCEPT ![m] = r.m])
           /\ last' = Call("bracket", m, "", key, 0, FALSE, 0)
    /\ UNCHANGED <<Keys, crashed, copied>>

\* map[key] = value;
OpBracketAssign(m, key, value, pos) ==
    /\ Ready /\ Live(m)
    /\ LET r == bracket(nodes, maps[m], key, pos)
       IN  /\ Leaves([r.h EXCEPT ![r.node].data[2] = value], [maps EXCEPT ![m] = r.m])
           /\ last' = Call("assign", m, "", key, value, FALSE, 0)
    /\ UNCHANGED <<Keys, crashed, copied>>

\* A call that ran into undefined behaviour ends in one of UBOutcomes.
Outcome(ub) ==
    IF ub THEN \E o \in UBOutcomes : crashed' = (o = "crash") ELSE crashed' = FALSE

OpErase(m, key) ==
    /\ Ready /\ Live(m)
    /\ LET r == erase(nodes, maps[m], key)
       IN  /\ Leaves(r.h, [maps EXCEPT ![m] = r.m])
           /\ last' = Call("erase", m, "", key, 0, FALSE, r.c)
           /\ Outcome(r.ub)
    /\ UNCHANGED <<Keys, copied>>

OpClear(m) ==
    /\ Ready /\ Live(m)
    /\ LET r == clear(nodes, maps[m])
       IN  /\ Leaves(r.h, [maps EXCEPT ![m] = r.m])
           /\ last' = Call("clear", m, "", <<>>, 0, FALSE,
                           Len(Elements(nodes, maps[m].m_root)))
    /\ UNCHANGED <<Keys, crashed, copied>>

\* m.merge(o)
OpMerge(m, o, pos) ==
    /\ Ready /\ Live(m) /\ Live(o) /\ m # o
    /\ LET r == merge(nodes, maps[m], maps[o], pos)
       IN  /\ Leaves(r.h, [maps EXCEPT ![m] = r.this, ![o] = r.source])
           /\ last' = Call("merge", m, o, <<>>, 0, FALSE, 0)
           /\ Outcome(r.ub)
    /\ UNCHANGED <<Keys, copied>>

\* void swap(MultiKeyMapImpl& rhs), and std::swap(m, o) which calls it.
OpSwap(m, o) ==
    /\ Ready /\ Live(m) /\ Live(o) /\ m # o
    /\ LET r == swap(maps[m], maps[o])
       IN  Leaves(nodes, [maps EXCEPT ![m] = r.this, ![o] = r.rhs])
    /\ last' = Call("swap", m, o, <<>>, 0, FALSE, 0)
    /\ UNCHANGED <<Keys, crashed, copied>>

\* MultiKeyMapImpl m(o);
OpCopyCtor(m, o, pos) ==
    /\ Ready /\ ~Live(m) /\ Live(o)
    /\ LET r == CopyCtor(nodes, maps[o], FALSE, pos)
       IN  /\ Leaves(r.h, [maps EXCEPT ![m] = r.m])
           /\ last' = Call("copy", m, o, <<>>, 0, FALSE, 0)
    /\ copied' = TRUE
    /\ UNCHANGED <<Keys, crashed>>

\* m = o;  operator= constructs a copy of o in place of *this.
OpAssign(m, o, pos) ==
    /\ Ready /\ Live(m) /\ Live(o)
    /\ LET r == CopyCtor(nodes, maps[o], m = o, pos)
       IN  /\ Leaves(r.h, [maps EXCEPT ![m] = r.m])
           /\ last' = Call("operator=", m, o, <<>>, 0, FALSE, 0)
    /\ UNCHANGED <<Keys, crashed, copied>>

\* MultiKeyMapImpl m(std::move(o));
OpMoveCtor(m, o) ==
    /\ Ready /\ ~Live(m) /\ Live(o)
    /\ LET r == MoveCtor(maps[o])
       IN  Leaves(nodes, [maps EXCEPT ![m] = r.this, ![o] = r.rhs])
    /\ last' = Call("move", m, o, <<>>, 0, FALSE, 0)
    /\ UNCHANGED <<Keys, crashed, copied>>

\* MultiKeyMapImpl m;
OpDefaultCtor(m) ==
    /\ Ready /\ ~Live(m)
    /\ LET r == DefaultCtor(nodes)
       IN  Leaves(r.h, [maps EXCEPT ![m] = r.m])
    /\ last' = Call("ctor", m, "", <<>>, 0, FALSE, 0)
    /\ UNCHANGED <<Keys, crashed, copied>>

\* MultiKeyMapImpl m(first, last);  and  MultiKeyMapImpl m{...};
\* last.c is the number of pairs given.
OpRangeCtor(m, init, pos) ==
    /\ Ready /\ ~Live(m)
    /\ LET r == InitListCtor(nodes, init, pos)
       IN  Leaves(r.h, [maps EXCEPT ![m] = r.m])
    /\ last' = Call("range", m, "", <<>>, 0, FALSE, Len(init))
    /\ UNCHANGED <<Keys, crashed, copied>>

\* The caller goes on: it drops what the last call returned.
Proceed ==
    /\ last # NoCall
    /\ last' = NoCall
    /\ copied' = (last.op = "copy")
    /\ UNCHANGED <<Keys, nodes, maps, crashed>>

Next ==
    \/ /\ Ready
       /\ \E m \in MapNames, key \in FullKeys, value \in Values :
             \E pos \in Places(nodes, maps[m].m_root, key) : OpInsert(m, key, value, pos)
    \/ /\ Ready
       /\ \E m \in MapNames, key \in FullKeys :
             \E pos \in Places(nodes, maps[m].m_root, key) : OpBracket(m, key, pos)
    \/ /\ Ready
       /\ \E m \in MapNames, key \in FullKeys, value \in Values :
             \E pos \in Places(nodes, maps[m].m_root, key) :
                OpBracketAssign(m, key, value, pos)
    \/ \E m \in MapNames, key \in Prefixes : OpErase(m, key)
    \/ \E m \in MapNames : OpClear(m)
    \/ \E m \in MapNames, o \in MapNames, pos \in Positions : OpMerge(m, o, pos)
    \/ \E m \in MapNames, o \in MapNames : OpSwap(m, o)
    \/ \E m \in MapNames, o \in MapNames, pos \in Positions : OpCopyCtor(m, o, pos)
    \/ \E m \in MapNames, o \in MapNames, pos \in Positions : OpAssign(m, o, pos)
    \/ \E m \in MapNames, o \in MapNames : OpMoveCtor(m, o)
    \/ \E m \in MapNames : OpDefaultCtor(m)
    \/ \E m \in MapNames, init \in InitLists, pos \in Positions : OpRangeCtor(m, init, pos)
    \/ Proceed

Spec == Init /\ [][Next]_vars

SpecSameType == InitSameType /\ [][Next]_vars

----------------------------------------------------------------------------
\* The container of trie.h: class MultiKeyMap with the one member root.
\* Its Node has children and data and no parent; its iterator is the
\* IteratorImpl above, line for line.  The model keeps it in map object
\* "a": m_root stands for root, m_size and parent stay 0.
RECURSIVE WalkPartialKey(_, _, _, _, _, _)
\* The fold over the key components of getNodeForPartialKeyImpl.
WalkPartialKey(h, node, key, i, create, pos) ==
    IF i > Len(key) \/ node = Null THEN [h |-> h, node |-> node]
    ELSE LET slot == getChildrenTypeFromTuple(Keys[i])
             children == h[node].children[slot]
         IN  IF MapCount(children, key[i]) = 0
             THEN IF create
                  THEN LET new == Len(h) + 1
                           h1 == [Append(h, NewNode) EXCEPT ![node].children[slot] =
                                     MapInsert(children, key[i], new, pos)]
                       IN  WalkPartialKey(h1, new, key, i + 1, create, pos)
                  ELSE WalkPartialKey(h, Null, key, i + 1, create, pos)
             ELSE WalkPartialKey(h, MapAt(children, key[i]), key, i + 1, create, pos)

getNodeForPartialKeyImpl(h, root, key, create, pos) ==
    IF root = Null
    THEN IF create
         THEN LET w == WalkPartialKey(Append(h, NewNode), Len(h) + 1, key, 1, create, pos)
              IN  [h |-> w.h, node |-> w.node, root |-> Len(h) + 1]
         ELSE [h |-> h, node |-> Null, root |-> root]
    ELSE LET w == WalkPartialKey(h, root, key, 1, create, pos)
         IN  [h |-> w.h, node |-> w.node, root |-> root]

getNodeForPartialKey(h, root, key) == getNodeForPartialKeyImpl(h, root, key, FALSE, 1).node

\* trie.h: bool insert(const key_type& key, const V& value)
trieInsert(h, root, key, value, pos) ==
    LET w == getNodeForPartialKeyImpl(h, root, key, TRUE, pos)
    IN  IF w.h[w.node].data = NoData
        THEN [h |-> [w.h EXCEPT ![w.node].data = <<key, value>>], root |-> w.root, ret |-> TRUE]
        ELSE [h |-> w.h, root |-> w.root, ret |-> FALSE]

\* trie.h: void erase(std::tuple<PartialKey...> key).  It clears, for every
\* type of Keys, the children mapping of the node of the key and does
\* nothing else; the node is dereferenced unchecked (ub).  The source
\* selects the mapping with std::get<Keys>, which names no element of the
\* tuple of mappings, so that a call of erase does not compile; the model
\* reads it as the mapping whose key type is Keys.
trieErase(h, root, key) ==
    LET node == getNodeForPartialKey(h, root, key)
    IN  IF node = Null THEN [h |-> h, ub |-> TRUE]
        ELSE [h  |-> [h EXCEPT ![node].children =
                         [s \in Slots |-> IF s \in ClearedSlots THEN <<>> ELSE @[s]]],
              ub |-> FALSE]

\* trie.h: find(key) .. end(), as (key, value) pairs.
trieFind(h, root, key) ==
    LET r == Range(h, IteratorImpl(h, getNodeForPartialKey(h, root, key)))
    IN  [i \in 1..Len(r) |-> h[r[i]].data]

\* The state after the construction MultiKeyMap() of trie.h.
InitTrie ==
    /\ Keys \in KeyConfigs
    /\ nodes = <<NewNode>>
    /\ maps = [m \in MapNames |->
                  IF m = "a" THEN [live |-> TRUE, m_root |-> 1, m_size |-> 0] ELSE DeadMap]
    /\ crashed = FALSE
    /\ last = NoCall
    /\ copied = FALSE

OpTrieInsert(key, value, pos) ==
    /\ Ready
    /\ LET r == trieInsert(nodes, maps["a"].m_root, key, value, pos)
       IN  /\ Leaves(r.h, [maps EXCEPT !["a"].m_root = r.root])
           /\ last' = Call("trie.insert", "a", "", key, value, r.ret, 0)
    /\ UNCHANGED <<Keys, crashed, copied>>

OpTrieErase(key) ==
    /\ Ready
    /\ LET r == trieErase(nodes, maps["a"].m_root, key)
       IN  /\ Leaves(r.h, maps)
           /\ last' = Call("trie.erase", "a", "", key, 0, FALSE, 0)
           /\ Outcome(r.ub)
    /\ UNCHANGED <<Keys, copied>>

NextTrie ==
    \/ /\ Ready
       /\ \E key \in FullKeys, value \in Values :
             \E pos \in Places(nodes, maps["a"].m_root, key) : OpTrieInsert(key, value, pos)
    \/ \E key \in Prefixes : OpTrieErase(key)
    \/ Proceed

SpecTrie == InitTrie /\ [][NextTrie]_vars

----------------------------------------------------------------------------
\* What a map holds, read off the node graph: the nodes below root, those
\* of them that carry a payload, and the (key, value) pairs they carry.
RECURSIVE Subtree(_, _)
Subtree(h, n) ==
    {n} \cup UNION { UNION { Subtree(h, h[n].children[s][i][2]) :
                                i \in 1..Len(h[n].children[s]) } : s \in Slots }

Payloads(h, root) ==
    IF root = Null THEN {} ELSE { x \in Subtree(h, root) : h[x].data # NoData }

Stored(h, root) == { h[x].data : x \in Payloads(h, root) }

StoredKeys(h, root) == { e[1] : e \in Stored(h, root) }

SeqToSet(q) == { q[i] : i \in 1..Len(q) }

LiveMaps == { m \in MapNames : Live(m) }

Root(m) == maps[m].m_root

----------------------------------------------------------------------------
\* C1: in every reachable state size() of every map equals the number of
\* payload-bearing nodes reachable from its root, which is the number of
\* elements begin()..end() yields.
C1_SizeIsElementCount ==
    \A m \in LiveMaps :
        /\ size(maps[m]) = Cardinality(Payloads(nodes, Root(m)))
        /\ size(maps[m]) = Len(Elements(nodes, Root(m)))

\* C2: insert(K, v2) on a map that stores K with v1 returns false and
\* leaves the value of K and size() as they were; insert returns true
\* exactly when K was not stored before the call.
C2_InsertKeepsFirstValue ==
    [][ last'.op = "insert" =>
          LET m == last'.m
              K == last'.key
              before == { e \in Stored(nodes, Root(m)) : e[1] = K }
              after == { e \in Stored(nodes', maps'[m].m_root) : e[1] = K }
          IN  /\ last'.ret = (before = {})
              /\ before # {} => /\ after = before
                                /\ size(maps'[m]) = size(maps[m]) ]_vars

\* C2 witness: an insert has just returned false on a key stored with
\* another value than the one it was given.
C2_Witness ==
    /\ last.op = "insert" /\ ~last.ret
    /\ \E e \in Stored(nodes, Root(last.m)) : e[1] = last.key /\ e[2] # last.val

\* C3: for every stored full key K and every prefix P of K of length 1..N,
\* iterating find(P) to the end yields the element (K, value of K).
C3_FindIsComplete ==
    \A m \in LiveMaps : \A e \in Stored(nodes, Root(m)) : \A P \in Prefixes :
        IsPrefix(P, e[1]) => e \in SeqToSet(find(nodes, Root(m), P))

\* C3 witness: a map of two-component keys stores two keys with the same
\* first component, and find on that component yields both elements.
C3_Witness ==
    \E m \in LiveMaps : \E P \in Prefixes :
        /\ Len(P) < N
        /\ Cardinality({ e \in Stored(nodes, Root(m)) : IsPrefix(P, e[1]) }) >= 2
        /\ Len(find(nodes, Root(m), P)) >= 2

\* C4: every element iterating find(P) yields is a stored element whose key
\* has P as a prefix, no key is yielded twice in one traversal, and find on
\* a full key yields at most one element.
C4_FindIsSound ==
    \A m \in LiveMaps : \A P \in Prefixes :
        LET f == find(nodes, Root(m), P)
        IN  /\ \A i \in 1..Len(f) : f[i] \in Stored(nodes, Root(m)) /\ IsPrefix(P, f[i][1])
            /\ \A i \in 1..Len(f) : \A j \in 1..Len(f) : f[i][1] = f[j][1] => i = j
            /\ Len(P) = N => Len(f) <= 1

\* C4 witness: find on a one-component prefix yields two elements while the
\* map stores a third whose key does not start with that prefix.
C4_Witness ==
    \E m \in LiveMaps : \E P \in Prefixes :
        /\ Len(find(nodes, Root(m), P)) >= 2
        /\ \E e \in Stored(nodes, Root(m)) : ~IsPrefix(P, e[1])

\* C5: after erase(P) of a prefix P that matched at least one stored key,
\* find(P) is empty, contains(P) is false and count(P) is 0.
C5_ErasedPrefixIsGone ==
    (last.op = "erase" /\ last.c > 0) =>
        /\ find(nodes, Root(last.m), last.key) = <<>>
        /\ ~contains(nodes, Root(last.m), last.key)
        /\ count(nodes, Root(last.m), last.key) = 0

\* C6: erase(P) for a prefix P that matches no stored key signals no error
\* and leaves the contents and size() of the map unchanged.
C6_EraseOfMissingKeyIsHarmless ==
    [][ (last'.op = "erase" /\ find(nodes, Root(last'.m), last'.key) = <<>>) =>
          /\ ~crashed'
          /\ Stored(nodes', maps'[last'.m].m_root) = Stored(nodes, Root(last'.m))
          /\ size(maps'[last'.m]) = size(maps[last'.m]) ]_vars

\* C7: erase(P) decreases size() by exactly the number of stored keys that
\* had P as a prefix immediately before the call.
C7_EraseDecrementsByMatches ==
    [][ last'.op = "erase" =>
          LET m == last'.m
              matched == { x \in Payloads(nodes, Root(m)) :
                              IsPrefix(last'.key, nodes[x].data[1]) }
          IN  size(maps'[m]) = size(maps[m]) - Cardinality(matched) ]_vars

\* C7 witness: an erase of a one-component prefix of two-component keys has
\* just removed two elements.
C7_Witness == last.op = "erase" /\ Len(last.key) < N /\ last.c >= 2 /\ ~crashed

\* C8: erase(P) leaves every stored key that does not have P as a prefix
\* present with an unchanged value.
C8_EraseKeepsOtherKeys ==
    [][ last'.op = "erase" =>
          \A e \in Stored(nodes, Root(last'.m)) :
              ~IsPrefix(last'.key, e[1]) => e \in Stored(nodes', maps'[last'.m].m_root) ]_vars

\* C8 witness: an erase has just removed an element and the map still
\* stores a key that does not start with the erased prefix.
C8_Witness ==
    /\ last.op = "erase" /\ last.c >= 1 /\ ~crashed
    /\ count(nodes, Root(last.m), last.key) = 0
    /\ \E e \in Stored(nodes, Root(last.m)) : ~IsPrefix(last.key, e[1])

\* C9: after a.merge(b), for a and b whose size() agreed with their
\* contents before the call, a holds its former elements unchanged plus
\* every element of b whose key was not in a, b holds exactly the elements
\* whose keys were already in a, and both sizes equal those element counts.
C9_MergeMovesNewKeys ==
    [][ ( /\ last'.op = "merge" /\ ~crashed'
          /\ size(maps[last'.m]) = Cardinality(Payloads(nodes, Root(last'.m)))
          /\ size(maps[last'.o]) = Cardinality(Payloads(nodes, Root(last'.o))) ) =>
          LET a == last'.m
              b == last'.o
              A == Stored(nodes, Root(a))
              B == Stored(nodes, Root(b))
              moved == { e \in B : e[1] \notin StoredKeys(nodes, Root(a)) }
              A2 == Stored(nodes', maps'[a].m_root)
              B2 == Stored(nodes', maps'[b].m_root)
          IN  /\ A2 = A \cup moved
              /\ B2 = B \ moved
              /\ size(maps'[a]) = Cardinality(A2)
              /\ size(maps'[b]) = Cardinality(B2) ]_vars

\* C10: after c is move-constructed from a, c holds what a held, a is
\* empty (a.begin() == a.end() and a.empty()), and later calls on a
\* complete without failure.
C10_MovedFromIsEmptyAndUsable ==
    [][ /\ last'.op = "move" =>
             /\ Stored(nodes', maps'[last'.m].m_root) = Stored(nodes, Root(last'.o))
             /\ isEnd(IteratorImpl(nodes', maps'[last'.o].m_root))
             /\ empty(maps'[last'.o])
        /\ (last'.op \in {"insert", "erase", "clear"} /\ Root(last'.m) = Null) =>
             ~crashed' ]_vars

\* The calls that change the contents of the map they are made on.
Mutators == {"insert", "bracket", "assign", "erase", "clear"}

\* C11: an insert, operator[] (with or without assignment), erase or clear
\* on one map leaves the elements, their order and size() of the other map
\* unchanged; in particular when one of the two is a copy of the other.
C11_CopyIsIndependent ==
    [][ last'.op \in Mutators =>
          \A o \in LiveMaps \ {last'.m} :
              /\ Stored(nodes', maps'[o].m_root) = Stored(nodes, Root(o))
              /\ Elements(nodes', maps'[o].m_root) = Elements(nodes, Root(o))
              /\ size(maps'[o]) = size(maps[o]) ]_vars

\* C11 witness: one map was copy-constructed from the other, the call after
\* that changed one of the two, and the other still holds elements the
\* changed one does not hold in the same way.
C11_Witness ==
    /\ copied /\ last.op \in Mutators /\ ~crashed
    /\ \E o \in LiveMaps \ {last.m} :
          /\ Stored(nodes, Root(o)) # {}
          /\ Stored(nodes, Root(o)) # Stored(nodes, Root(last.m))

\* C12: b = a (b and a two maps) leaves b with exactly the elements of a
\* and b.size() == a.size(), and leaves a unchanged.
C12_AssignReplacesContents ==
    [][ (last'.op = "operator=" /\ last'.m # last'.o) =>
          LET b == last'.m
              a == last'.o
          IN  /\ Stored(nodes', maps'[b].m_root) = Stored(nodes, Root(a))
              /\ size(maps'[b]) = size(maps'[a])
              /\ Stored(nodes', maps'[a].m_root) = Stored(nodes, Root(a))
              /\ size(maps'[a]) = size(maps[a]) ]_vars

\* C13: a == b holds exactly when a and b store the same set of
\* (full key, value) pairs.
C13_EqualityIsValueBased ==
    \A a \in LiveMaps : \A b \in LiveMaps :
        operatorEquals(nodes, maps[a], maps[b]) <=>
            Stored(nodes, Root(a)) = Stored(nodes, Root(b))

\* The elements stored for full key K.
Held(h, root, K) == { e \in Stored(h, root) : e[1] = K }

\* C14: at(K) returns the value stored for K when K is stored; when K is
\* not stored it throws, and the nodes, m_root and m_size are as before.
C14_AtReturnsOrThrows ==
    \A m \in LiveMaps : \A K \in FullKeys :
        LET r == at(nodes, maps[m], K)
        IN  /\ Held(nodes, Root(m), K) # {} =>
                  r.found /\ <<K, r.value>> \in Held(nodes, Root(m), K)
            /\ Held(nodes, Root(m), K) = {} =>
                  ~r.found /\ r.h = nodes /\ r.m = maps[m]

\* C14 witness: a map stores one key with a value that is not the default,
\* at() returns it, and at() throws for another key.
C14_Witness ==
    \E m \in LiveMaps : \E K \in FullKeys : \E K2 \in FullKeys :
        /\ at(nodes, maps[m], K).found
        /\ at(nodes, maps[m], K).value # DefaultValue
        /\ Held(nodes, Root(m), K2) = {}
        /\ ~at(nodes, maps[m], K2).found

\* C15: after map[K] = v, at(K) returns v.
C15_BracketAssignRoundTrip ==
    [][ last'.op = "assign" =>
          LET r == at(nodes', maps'[last'.m], last'.key)
          IN  r.found /\ r.value = last'.val ]_vars

\* C15 witness: map[K] = v has just run with v not the default value, and
\* at(K) returns v.
C15_Witness ==
    /\ last.op = "assign" /\ last.val # DefaultValue
    /\ at(nodes, maps[last.m], last.key).found
    /\ at(nodes, maps[last.m], last.key).value = last.val

\* C16: operator[](K) on a stored K leaves size() and the stored value as
\* they were; on an absent K it stores the default value and adds one to
\* size().  With an assignment through the reference the size changes the
\* same way.
C16_BracketCountsAbsentKeyOnly ==
    [][ last'.op \in {"bracket", "assign"} =>
          LET m == last'.m
              K == last'.key
              before == Held(nodes, Root(m), K)
              after == Held(nodes', maps'[m].m_root, K)
          IN  /\ before # {} => size(maps'[m]) = size(maps[m])
              /\ before = {} => size(maps'[m]) = size(maps[m]) + 1
              /\ (last'.op = "bracket" /\ before # {}) => after = before
              /\ (last'.op = "bracket" /\ before = {}) => after = {<<K, DefaultValue>>} ]_vars

\* C16 witness: operator[](K) has just run on a key stored with a value
\* that is not the default (so it was stored before the call).
C16_Witness ==
    /\ last.op = "bracket"
    /\ \E e \in Held(nodes, Root(last.m), last.key) : e[2] # DefaultValue

\* C17: count(P) is the number of stored full keys with prefix P, for every
\* prefix length 1..N, and contains(P) is true exactly when it is not 0.
C17_CountCountsMatches ==
    \A m \in LiveMaps : \A P \in Prefixes :
        LET matches == { x \in Payloads(nodes, Root(m)) : IsPrefix(P, nodes[x].data[1]) }
        IN  /\ count(nodes, Root(m), P) = Cardinality(matches)
            /\ contains(nodes, Root(m), P) <=> (matches # {})

\* C17 witness: a map of two-component keys where count of a one-component
\* prefix is 2 and another prefix, whose node exists, has count 0.
C17_Witness ==
    \E m \in LiveMaps : \E P \in Prefixes : \E Q \in Prefixes :
        /\ Len(P) < N /\ count(nodes, Root(m), P) = 2
        /\ getNodeForKeyPrefix(nodes, Root(m), Q) # Null
        /\ count(nodes, Root(m), Q) = 0 /\ ~contains(nodes, Root(m), Q)

\* C18: after clear() size() is 0, begin() == end(), find(P) is empty for
\* every P, and a following insert of any key returns true.
C18_ClearEmptiesTheMap ==
    [][ last'.op = "clear" =>
          LET m == last'.m
              root == maps'[m].m_root
          IN  /\ size(maps'[m]) = 0
              /\ isEnd(IteratorImpl(nodes', root))
              /\ \A P \in Prefixes : find(nodes', root, P) = <<>>
              /\ \A K \in FullKeys : \A v \in Values :
                    insert(nodes', maps'[m], K, v, 1).ret ]_vars

\* C18 witness: clear() has just run on a map that held elements.
C18_Witness == last.op = "clear" /\ last.c >= 1 /\ size(maps[last.m]) = 0

\* C19: after a.swap(b) a holds the elements and size b had and b those a
\* had, and a second swap gives both maps back what they had.
C19_SwapExchangesContents ==
    [][ last'.op = "swap" =>
          LET a == last'.m
              b == last'.o
              again == swap(maps'[a], maps'[b])
          IN  /\ Stored(nodes', maps'[a].m_root) = Stored(nodes, Root(b))
              /\ Stored(nodes', maps'[b].m_root) = Stored(nodes, Root(a))
              /\ size(maps'[a]) = size(maps[b])
              /\ size(maps'[b]) = size(maps[a])
              /\ Stored(nodes', again.this.m_root) = Stored(nodes, Root(a))
              /\ Stored(nodes', again.rhs.m_root) = Stored(nodes, Root(b))
              /\ size(again.this) = size(maps[a])
              /\ size(again.rhs) = size(maps[b]) ]_vars

\* C19 witness: a swap has just run between maps of different elements and
\* different sizes.
C19_Witness ==
    /\ last.op = "swap"
    /\ Stored(nodes, Root(last.m)) # Stored(nodes, Root(last.o))
    /\ Stored(nodes, Root(last.m)) # {} /\ Stored(nodes, Root(last.o)) # {}
    /\ size(maps[last.m]) # size(maps[last.o])

\* The elements an iterator enumerates up to end(), in order.
Enumerated(h, it) == LET r == Range(h, it) IN [i \in 1..Len(r) |-> h[r[i]].data]

\* C20: an iterator obtained from a before a.swap(b), by begin() or by
\* find(P), enumerates after the swap the elements it would have enumerated
\* without it, in the same order; they are then the elements of b.
C20_IteratorsSurviveSwap ==
    [][ last'.op = "swap" =>
          LET a == last'.m
              b == last'.o
          IN  /\ Enumerated(nodes, IteratorImpl(nodes, Root(a))) =
                     Elements(nodes', maps'[b].m_root)
              /\ \A P \in Prefixes :
                     Enumerated(nodes, IteratorImpl(nodes, getNodeForKeyPrefix(nodes, Root(a), P)))
                         = find(nodes', maps'[b].m_root, P) ]_vars

\* C20 witness: a swap has just run, the map swapped into holds two
\* elements in its iteration order, and the other map holds other elements.
C20_Witness ==
    /\ last.op = "swap"
    /\ Len(Elements(nodes, Root(last.o))) >= 2
    /\ Stored(nodes, Root(last.m)) # {}
    /\ Stored(nodes, Root(last.m)) # Stored(nodes, Root(last.o))

----------------------------------------------------------------------------
\* The pairs of init whose key no earlier pair of init has.
FirstPairs(init) ==
    { init[j] : j \in { i \in 1..Len(init) :
                          \A l \in 1..(i - 1) : init[l][1] # init[i][1] } }

RECURSIVE InsertEach(_, _, _, _)
\* insert called on map m with each pair of init, in the order of init.
InsertEach(h, m, init, pos) ==
    IF init = <<>> THEN [h |-> h, m |-> m]
    ELSE LET r == InsertEach(h, m, SubSeq(init, 1, Len(init) - 1), pos)
             kv == init[Len(init)]
         IN  LET ins == insert(r.h, r.m, kv[1], kv[2], pos)
             IN  [h |-> ins.h, m |-> ins.m]

\* begin()..end() of map m in heap h.
Contents(h, m) == Enumerated(h, IteratorImpl(h, m.m_root))

\* C21: a map constructed from a range or from an initializer list is the
\* map a default construction followed by insert of every pair, in the order
\* of the sequence, makes: begin()..end() yields the same elements, size()
\* is the same, the elements are the first pair of every key given, and
\* size() is their number.
C21_RangeCtorIsInsertEach ==
    /\ Ready =>
         \A init \in InitLists, pos \in Positions :
            LET d == DefaultCtor(nodes)
                f == InsertEach(d.h, d.m, init, pos)
                same(r) == /\ Contents(r.h, r.m) = Contents(f.h, f.m)
                           /\ size(r.m) = size(f.m)
                           /\ Stored(r.h, r.m.m_root) = FirstPairs(init)
                           /\ size(r.m) = Cardinality(FirstPairs(init))
            IN  same(RangeCtor(nodes, init, pos)) /\ same(InitListCtor(nodes, init, pos))
    /\ last.op = "range" =>
         /\ size(maps[last.m]) = Cardinality(Stored(nodes, Root(last.m)))
         /\ size(maps[last.m]) <= last.c
         /\ Contents(nodes, maps[last.m]) # <<>> <=> last.c > 0

\* A map has just been constructed from two pairs with the same key: it
\* holds one element.
C21_Witness ==
    /\ last.op = "range" /\ last.c = 2
    /\ size(maps[last.m]) = 1
    /\ Cardinality(Stored(nodes, Root(last.m))) = 1
----------------------------------------------------------------------------
\* The iterators of a state: IteratorImpl constructed from a node in reach
\* or from nullptr, and what operator++ makes of them.
StartNodes == 0..Len(nodes)

RECURSIVE IteratorsFrom(_, _)
IteratorsFrom(h, it) ==
    {it} \cup (IF isEnd(it) THEN {} ELSE IteratorsFrom(h, Increment(h, it)))

Iterators == UNION { IteratorsFrom(nodes, IteratorImpl(nodes, n)) : n \in StartNodes }

RECURSIVE IncrementTimes(_, _, _)
\* it after operator++ has been called k times on it.
IncrementTimes(h, it, k) ==
    IF k = 0 THEN it ELSE IncrementTimes(h, Increment(h, it), k - 1)

\* The iterator find(key) returns.
findIterator(h, root, key) == IteratorImpl(h, getNodeForKeyPrefix(h, root, key))

\* C22: operator++ on an exhausted iterator changes nothing: however the
\* iterator came to its end (end(), a find that matched nothing, a traversal
\* run to its end), after 1..MaxIncrements further increments it is still
\* exhausted, isEnd() is true and it equals end().
C22_IncrementAtEndIsNoOp ==
    \A it \in Iterators \cup { end } :
       isEnd(it) =>
          \A k \in 1..MaxIncrements :
             LET j == IncrementTimes(nodes, it, k)
             IN  isEnd(j) /\ IteratorEquals(j, end) /\ IteratorEquals(end, j) /\ j = it

\* A map holds an element and begin(), incremented once per element, is
\* exhausted and stays so under further increments.
C22_Witness ==
    \E m \in LiveMaps :
       LET n == Len(Elements(nodes, Root(m)))
       IN  /\ n > 0
           /\ ~isEnd(IncrementTimes(nodes, begin(nodes, Root(m)), n - 1))
           /\ isEnd(IncrementTimes(nodes, begin(nodes, Root(m)), n))
           /\ isEnd(IncrementTimes(nodes, begin(nodes, Root(m)), n + MaxIncrements))

\* C23: two iterators compare equal exactly if both are exhausted or both
\* are positioned at the same node, and then they dereference to the same
\* element; the comparison is symmetric; two find(P) on an unchanged map
\* are equal; find of a prefix that no stored key starts with equals end().
C23_IteratorEquality ==
    LET each(its) ==
            \A it1 \in its, it2 \in its :
               /\ IteratorEquals(it1, it2) <=>
                     \/ isEnd(it1) /\ isEnd(it2)
                     \/ ~isEnd(it1) /\ ~isEnd(it2) /\ Top(it1) = Top(it2)
               /\ IteratorEquals(it1, it2) = IteratorEquals(it2, it1)
               /\ IteratorEquals(it1, it2) /\ ~isEnd(it1) =>
                     nodes[Top(it1)].data = nodes[Top(it2)].data
        found(keys, P, f1, f2) ==
            /\ IteratorEquals(f1, f2)
            /\ (\A K \in keys : ~IsPrefix(P, K)) => IteratorEquals(f1, end)
    IN  /\ each(Iterators)
        /\ \A m \in LiveMaps :
              \A P \in Prefixes :
                 found(StoredKeys(nodes, Root(m)), P,
                       findIterator(nodes, Root(m), P), findIterator(nodes, Root(m), P))

\* begin(), advanced, and find(P) stand at the same node with different
\* stacks and compare equal, while find of another key stands elsewhere
\* and find of an absent key is end().
C23_Witness ==
    \E m \in LiveMaps, P \in Prefixes, Q \in Prefixes, R \in Prefixes :
       LET b == begin(nodes, Root(m))
           f == findIterator(nodes, Root(m), P)
           g == findIterator(nodes, Root(m), Q)
       IN  /\ ~isEnd(f) /\ ~isEnd(g)
           /\ b # f /\ IteratorEquals(b, f)
           /\ ~IteratorEquals(f, g)
           /\ \A K \in StoredKeys(nodes, Root(m)) : ~IsPrefix(R, K)
           /\ IteratorEquals(findIterator(nodes, Root(m), R), end)

----------------------------------------------------------------------------
\* The four overloads of find, as the iterators they return.
findTuple(h, root, key) == IteratorImpl(h, getNodeForKeyPrefix(h, root, key))
findVariadic(h, root, key) == IteratorImpl(h, getNodeForKeyPrefix(h, root, make_tuple(key)))
findTupleConst(h, root, key) == IteratorImpl(h, getNodeForKeyPrefixConst(h, root, key))
findVariadicConst(h, root, key) == findTupleConst(h, root, make_tuple(key))

----------------------------------------------------------------------------
\* The nodes and the members of map m after the lookup of key that the
\* non-const find makes: getNodeForKeyPrefix(key) with
\* createIfKeyDoesNotExist = false.
AfterLookup(h, m, key) ==
    LET w == getNodeForKeyPrefixImpl(h, m.m_root, key, FALSE, 1)
    IN  [h |-> w.h, m |-> [m EXCEPT !.m_root = w.root], node |-> w.node]

\* The first i for which the first i components of key name no node of the
\* map, 0 if the key names a node.
Missing(h, root, key) ==
    IF getNodeForKeyPrefix(h, root, key) # Null THEN 0
    ELSE CHOOSE i \in 1..Len(key) :
            /\ getNodeForKeyPrefix(h, root, SubSeq(key, 1, i)) = Null
            /\ \A j \in 1..(i - 1) : getNodeForKeyPrefix(h, root, SubSeq(key, 1, j)) # Null

\* C25: a lookup changes nothing: after find (and count and contains, which
\* are made of it) with any prefix and after at with any full key, present
\* or not, the nodes and the members of the map are what they were, so no
\* node was created and the stored elements and size() are the same; a walk
\* that fails returns nullptr whatever components follow the first missing
\* one.
C25_LookupsDoNotMutate ==
    \A m \in LiveMaps :
       /\ \A P \in Prefixes :
             LET frame(w, i) ==
                     /\ w.h = nodes /\ w.m = maps[m]
                     /\ Stored(w.h, w.m.m_root) = Stored(nodes, Root(m))
                     /\ size(w.m) = size(maps[m])
                     /\ i > 0 => /\ w.node = Null
                                 /\ AfterLookup(nodes, maps[m], SubSeq(P, 1, i)).node = Null
                                 /\ count(nodes, Root(m), P) = 0
                                 /\ ~contains(nodes, Root(m), P)
             IN  frame(AfterLookup(nodes, maps[m], P), Missing(nodes, Root(m), P))
       /\ \A K \in FullKeys :
             LET frame(w) == w.h = nodes /\ w.m = maps[m]
             IN  frame(at(nodes, maps[m], K))

\* A map with an element in which the lookup of a two-component key fails
\* at the first component, another at the second, and at throws.
C25_Witness ==
    \E m \in LiveMaps, P \in Prefixes, Q \in Prefixes :
       /\ Stored(nodes, Root(m)) # {}
       /\ Len(P) = 2 /\ Missing(nodes, Root(m), P) = 1
       /\ Len(Q) = 2 /\ Missing(nodes, Root(m), Q) = 2
       /\ ~at(nodes, maps[m], P).found
       /\ AfterLookup(nodes, maps[m], P).h = nodes

----------------------------------------------------------------------------
RECURSIVE PathsBelow(_, _, _)
\* The nodes below node n, each with the sequence of the keys on the edges
\* that lead to it from the root; path is that sequence for n itself.
PathsBelow(h, n, path) ==
    { <<n, path>> } \cup
    UNION { UNION { PathsBelow(h, h[n].children[s][i][2],
                               Append(path, h[n].children[s][i][1])) :
                       i \in 1..Len(h[n].children[s]) } : s \in Slots }

\* C26: in every reachable state, in every map, a node that carries a
\* payload lies N edges below the root and has no children, a node fewer
\* than N edges below the root (the root too) carries none, no node lies
\* deeper, and the key in a payload is the sequence of the edge keys on the
\* path from the root to its node.
C26_PayloadsAtFullDepth ==
    \A m \in LiveMaps :
       Root(m) # Null =>
          \A np \in PathsBelow(nodes, Root(m), <<>>) :
             LET x == np[1]
                 path == np[2]
             IN  /\ Len(path) <= N
                 /\ Len(path) < N => nodes[x].data = NoData
                 /\ nodes[x].data # NoData =>
                       /\ Len(path) = N
                       /\ ChildrenOf(nodes[x], 1) = <<>>
                       /\ nodes[x].data[1] = path

\* A map with two payload nodes two edges below the root under one
\* payload-less node, each carrying the key its path spells.
C26_Witness ==
    \E m \in LiveMaps :
       /\ Root(m) # Null
       /\ \E np \in PathsBelow(nodes, Root(m), <<>>), nq \in PathsBelow(nodes, Root(m), <<>>) :
             /\ np[1] # nq[1]
             /\ Len(np[2]) = 2 /\ Len(nq[2]) = 2 /\ np[2][1] = nq[2][1]
             /\ nodes[np[1]].data # NoData /\ nodes[nq[1]].data # NoData
             /\ nodes[np[1]].data[1] = np[2]
             /\ nodes[nodes[np[1]].parent].data = NoData

----------------------------------------------------------------------------
\* C27: every edge is recorded in both directions: in every reachable state
\* the root of a map has no parent, and every node in a children mapping of
\* a node x below the root (x the root itself included) has x as its parent.
C27_ParentsMirrorChildren ==
    \A m \in LiveMaps :
       Root(m) # Null =>
          /\ nodes[Root(m)].parent = Null
          /\ \A x \in Subtree(nodes, Root(m)) :
                \A i \in 1..Len(ChildrenOf(nodes[x], 1)) :
                   nodes[ChildrenOf(nodes[x], 1)[i]].parent = x

----------------------------------------------------------------------------
\* C28: with a pack in which two components have the same type, erase of a
\* stored full key removes the edge from the children mapping in which
\* insert recorded it: over every erase step of a full key that was stored
\* and that returns, the mapping of the parent for the type of the last
\* component no longer has that component, and find of the key yields
\* nothing.
C28_EraseRemovesSameTypeEdge ==
    [][(/\ last'.op = "erase" /\ ~crashed'
        /\ Len(last'.key) = N
        /\ Held(nodes, Root(last'.m), last'.key) # {})
       => LET K == last'.key
              root == maps'[last'.m].m_root
              above == getNodeForKeyPrefix(nodes', root, SubSeq(K, 1, N - 1))
          IN  /\ above # Null =>
                    MapCount(nodes'[above].children[getChildrenTypeFromTuple(Keys[N])],
                             K[N]) = 0
              /\ find(nodes', root, K) = <<>>]_vars

----------------------------------------------------------------------------
\* C29: whenever the constructor of an iterator or operator++ has returned
\* and the iterator is not exhausted, the top of its stack is a node with a
\* payload, from whatever node the iterator was constructed: a root, a
\* payload-less inner node, a childless node an erase left behind.
C29_TopCarriesPayload ==
    \A n \in StartNodes :
       \A it \in IteratorsFrom(nodes, IteratorImpl(nodes, n)) :
          ~isEnd(it) => nodes[Top(it)].data # NoData

\* An inner node without payload whose iterator stands at a payload below
\* it and is not exhausted by one increment, next to a node without payload
\* and without children whose iterator is exhausted from the start.
C29_Witness ==
    \E n \in 1..Len(nodes), e \in 1..Len(nodes) :
       /\ \A m \in MapNames : Root(m) # n /\ Root(m) # e
       /\ nodes[n].data = NoData /\ ChildrenOf(nodes[n], 1) # <<>>
       /\ ~isEnd(IteratorImpl(nodes, n))
       /\ nodes[Top(IteratorImpl(nodes, n))].data # NoData
       /\ ~isEnd(Increment(nodes, IteratorImpl(nodes, n)))
       /\ nodes[e].data = NoData /\ ChildrenOf(nodes[e], 1) = <<>>
       /\ isEnd(IteratorImpl(nodes, e))

RECURSIVE Advances(_, _, _)
\* What at most fuel calls of advance() make of a stack: the stack left and
\* the nodes popped, in order.
Advances(h, stack, fuel) ==
    IF stack = <<>> \/ fuel = 0 THEN [stack |-> stack, popped |-> <<>>]
    ELSE LET r == Advances(h, advance(h, stack), fuel - 1)
         IN  [stack |-> r.stack, popped |-> <<Top(stack)>> \o r.popped]

\* C30: a traversal ends: from every node, as many calls of advance() as
\* the heap has nodes empty the stack, popping every node below the start
\* node once and no other; so an iterator constructed from any node is
\* exhausted after at most that many increments, which bounds the loops of
\* count, operator==, the copy constructor and merge.
C30_TraversalTerminates ==
    \A n \in 1..Len(nodes) :
       LET ends(r) ==
               /\ r.stack = <<>>
               /\ \A i \in 1..Len(r.popped), j \in 1..Len(r.popped) :
                     r.popped[i] = r.popped[j] => i = j
               /\ SeqToSet(r.popped) = Subtree(nodes, n)
       IN  /\ ends(Advances(nodes, <<n>>, Len(nodes)))
           /\ isEnd(IncrementTimes(nodes, IteratorImpl(nodes, n), Len(nodes)))
           /\ count(nodes, n, <<>>) <= Cardinality(Subtree(nodes, n))

\* A map with two elements under one inner node: the traversal from its
\* root pops four nodes and begin() is exhausted by the second increment,
\* not before.
C30_Witness ==
    \E m \in LiveMaps :
       /\ Root(m) # Null
       /\ Len(Advances(nodes, <<Root(m)>>, Len(nodes)).popped) = 4
       /\ Advances(nodes, <<Root(m)>>, 3).stack # <<>>
       /\ ~isEnd(IncrementTimes(nodes, begin(nodes, Root(m)), 1))
       /\ isEnd(IncrementTimes(nodes, begin(nodes, Root(m)), 2))

----------------------------------------------------------------------------
----------------------------------------------------------------------------
\* Ownership of the nodes.  NodePtr is std::shared_ptr<Node>: a node is
\* owned by the m_root that points to it, by every children mapping that
\* holds it and by every node whose parent member points to it, and it is
\* destroyed, releasing what it owns, when its last owner is gone.
Owners(h, x, alive) ==
    { y \in alive : \/ h[y].parent = x
                    \/ \E i \in 1..Len(ChildrenOf(h[y], 1)) : ChildrenOf(h[y], 1)[i] = x }

RootNodes(ms) == { ms[m].m_root : m \in MapNames } \ { Null }

RECURSIVE Release(_, _, _)
\* The nodes of alive that are left when every node without an owner has
\* been destroyed, and every node that this leaves without an owner.
Release(h, ms, alive) ==
    LET free == { x \in alive : x \notin RootNodes(ms) /\ Owners(h, x, alive) = {} }
    IN  IF free = {} THEN alive ELSE Release(h, ms, alive \ free)

\* The nodes that no m_root leads to through children mappings and that
\* are not destroyed.
Retained(h, ms) ==
    Release(h, ms, 1..Len(h)) \ UNION { Subtree(h, r) : r \in RootNodes(ms) }

\* C32: parent references own nothing: over every clear and every erase
\* that returns, made while no iterator exists, every node that no map's
\* root leads to any more is destroyed.
C32_UnreachableNodesAreDestroyed ==
    [][(last'.op \in {"clear", "erase"} /\ ~crashed')
       => LET m == last'.m
              r == IF last'.op = "clear" THEN clear(nodes, maps[m])
                   ELSE LET e == erase(nodes, maps[m], last'.key) IN [h |-> e.h, m |-> e.m]
          IN  Retained(r.h, [maps EXCEPT ![m] = r.m]) = {}]_vars

----------------------------------------------------------------------------
\* C33: a map populated by inserts alone is iterated in the order the edges
\* were created.  Its case for two inserts: over every insert of a new key
\* into a map that holds one element and consists of the path of that
\* element alone, begin()..end() yields afterwards the old element first
\* and the new one second.
C33_IterationFollowsInsertionOrder ==
    [][(/\ last'.op = "insert" /\ last'.ret
        /\ Root(last'.m) # Null
        /\ Cardinality(Subtree(nodes, Root(last'.m))) = N + 1
        /\ Len(Elements(nodes, Root(last'.m))) = 1)
       => Elements(nodes', maps'[last'.m].m_root) =
             Elements(nodes, Root(last'.m)) \o << <<last'.key, last'.val>> >>]_vars

----------------------------------------------------------------------------
\* C34: in the container of trie.h, erase(K) erases every value that
\* matches K: over every erase step that returns, of a full key or of a
\* shorter prefix, find of the erased key yields nothing afterwards.
C34_TrieEraseRemovesMatches ==
    [][(last'.op = "trie.erase" /\ ~crashed')
       => trieFind(nodes', maps'["a"].m_root, last'.key) = <<>>]_vars


----------------------------------------------------------------------------
\* C35: self-assignment is harmless: over every step a = a, the map holds
\* afterwards exactly the elements it held before, and size() is what it
\* was.
C35_SelfAssignmentKeepsContents ==
    [][(last'.op = "operator=" /\ last'.m = last'.o)
       => /\ Stored(nodes', maps'[last'.m].m_root) = Stored(nodes, Root(last'.m))
          /\ size(maps'[last'.m]) = size(maps[last'.m])]_vars

----------------------------------------------------------------------------
\* C36: operator== is reflexive and symmetric in every reachable state: for
\* all constructed maps a and b, a == a holds and (a == b) is (b == a).
C36_EqualitySymmetricReflexive ==
    \A a \in LiveMaps :
        /\ operatorEquals(nodes, maps[a], maps[a])
        /\ \A b \in LiveMaps :
              operatorEquals(nodes, maps[a], maps[b]) = operatorEquals(nodes, maps[b], maps[a])

----------------------------------------------------------------------------
\* C37: empty() agrees with iteration in every reachable state: for every
\* constructed map, empty() is true exactly when begin() == end().
C37_EmptyIffBeginIsEnd ==
    \A m \in LiveMaps :
        empty(maps[m]) <=> IteratorEquals(begin(nodes, Root(m)), end)

----------------------------------------------------------------------------
\* The iterators of the map whose root is root: IteratorImpl constructed
\* from a node of the map, as begin() and find() do, and what operator++
\* makes of them.
IteratorsOf(h, root) ==
    IF root = Null THEN {}
    ELSE UNION { IteratorsFrom(h, IteratorImpl(h, n)) : n \in Subtree(h, root) }

\* C38: an iterator never yields an erased element: over every erase or
\* clear step that returns, an iterator of the map created before the step
\* and incremented after it yields from then on no element whose key the
\* step removed from the map.
C38_IteratorSkipsErasedElements ==
    [][(last'.op \in {"erase", "clear"} /\ ~crashed')
       => LET m == last'.m
              r == IF last'.op = "clear" THEN clear(nodes, maps[m])
                   ELSE LET e == erase(nodes, maps[m], last'.key) IN [h |-> e.h, m |-> e.m]
              removed == StoredKeys(nodes, Root(m)) \ StoredKeys(r.h, r.m.m_root)
              yields(it) == Enumerated(r.h, Increment(r.h, it))
          IN  \A it \in IteratorsOf(nodes, Root(m)) :
                  ~isEnd(it) =>
                      \A i \in 1..Len(yields(it)) : yields(it)[i][1] \notin removed]_vars

----------------------------------------------------------------------------
\* C39: iterators that compare equal denote the same remaining range: for
\* every constructed map and every two iterators of it that are not
\* exhausted and compare equal, incrementing both in lock-step yields the
\* same sequence of elements up to end().
C39_EqualIteratorsSameRange ==
    \A m \in LiveMaps :
        \A it1, it2 \in IteratorsOf(nodes, Root(m)) :
            (~isEnd(it1) /\ ~isEnd(it2) /\ IteratorEquals(it1, it2))
                => Enumerated(nodes, it1) = Enumerated(nodes, it2)

====
